---- MODULE Spec2Model ----
(***************************************************************************)
(* Model of the DirectInGroup tracker of                                   *)
(* node/network/statement-distribution/src/vstaging/direct.rs.             *)
(*                                                                         *)
(* Vectors are functions over 0..len-1, as in the source; Option::None of  *)
(* a CandidateHash is None (0) and the hashes are 1, 2, ...  A             *)
(* ValidatorIndex is a natural number; a position in the group is a        *)
(* usize, or NoIndex for Option::None.                                     *)
(***************************************************************************)
EXTENDS Integers, Sequences, FiniteSets, TLC

VARIABLES
    new_args,         \* the arguments DirectInGroup::new is called with
    pc,               \* "new": not constructed yet; "ready"; "none": new returned None;
                      \* "panicked": an index was out of bounds, or a usize underflowed
    validators,       \* DirectInGroup.validators
    our_index,        \* DirectInGroup.our_index (a position)
    seconding_limit,  \* DirectInGroup.seconding_limit
    incoming,         \* DirectInGroup.incoming
    accepted,         \* DirectInGroup.accepted
    last,             \* the last call of handle_incoming_seconded and what it returned
    log,              \* history: the calls so far that were not answered PeerExcess
    script            \* history: the verdicts of the calls so far, while they follow
                      \* the scenario of the specification's testable properties

vars == <<new_args, pc, validators, our_index, seconding_limit, incoming,
          accepted, last, log, script>>

tracker == <<validators, our_index, seconding_limit, incoming, accepted>>

----------------------------------------------------------------------------
(* Bounds of the model. *)

\* largest seconding limit a tracker is built with
MaxLimit == 2
\* largest group a tracker is built for
MaxGroup == 3
\* the groups are <<k, k+1, ...>> for k in 0..MaxOffset
MaxOffset == 1
\* largest incoming matrix, (G-1)*G*L slots, of a tracker whose calls are logged
MaxIncoming == 6

\* the trackers whose calls are not logged: largest group, largest seconding
\* limit (from 0), largest incoming matrix
WideGroup == 4
WideLimit == 2
WideIncoming == 12
DeepGroup == 4
DeepLimit == 7
DeepHashes == 5
DeepWrites == 6

None == 0
NoIndex == -1
\* the hashes the peers of a tracker send: one more than a row can hold
Hashes == 1..(seconding_limit + 1)
ValidatorIds == 0..(MaxGroup + MaxOffset)

Min(S) == CHOOSE x \in S : \A y \in S : x <= y
Max(S) == CHOOSE x \in S : \A y \in S : x >= y

Members(vs) == {vs[i] : i \in 1..Len(vs)}

\* the identities a call may name: the group's validators and one outside it
Callers(vs) == Members(vs) \cup {Max(Members(vs) \cup {0}) + 1}

GroupFrom(k, n) == [i \in 1..n |-> k + i - 1]

Groups == {GroupFrom(k, n) : k \in 0..MaxOffset, n \in 0..MaxGroup}

WideGroups == {GroupFrom(k, n) : k \in 0..MaxOffset, n \in 0..WideGroup}
WideIds == 0..(WideGroup + MaxOffset)

----------------------------------------------------------------------------
(* The pure helpers. *)

\* position of the first element equal to index, 0-based
index_in_group(vs, index) ==
    LET hits == {i \in 1..Len(vs) : vs[i] = index}
    IN  IF hits = {} THEN NoIndex ELSE Min(hits) - 1

\* mutant: the sender dimension left as it is
adjust_for_skipped_self_not(index) == index

adjust_for_skipped_self(index) ==
    IF index > our_index THEN index - 1 ELSE index

\* mutant: the range taken inclusive, base ..= base + limit
incoming_range_inclusive(sender, originator) ==
    LET s == IF sender > our_index THEN sender - 1 ELSE sender
        base == (s * (Len(validators) - 1)) + originator * seconding_limit
    IN  [start |-> base, end |-> base + seconding_limit + 1]

\* a Range<usize>: start .. end, end excluded
incoming_range(sender, originator) ==
    LET s == adjust_for_skipped_self(sender)
        base == (s * (Len(validators) - 1)) + originator * seconding_limit
    IN  [start |-> base, end |-> base + seconding_limit]

\* mutant: the end of the range taken one too low
accepted_range_short(originator) ==
    LET base == originator * seconding_limit
    IN  [start |-> base, end |-> base + seconding_limit - 1]

accepted_range(originator) ==
    LET base == originator * seconding_limit
    IN  [start |-> base, end |-> base + seconding_limit]

Slots(range) == range.start..(range.end - 1)

\* mutant: the loops without their duplicate check, stopping at the first
\* slot that is outside the vector or empty
FirstEmpty(vec, range, candidate_hash) ==
    LET stops == {i \in Slots(range) : i \notin DOMAIN vec \/ vec[i] = None}
    IN  IF stops = {} THEN NoIndex ELSE Min(stops)

\* mutant: a full row gives up its first slot
FirstStopEvict(vec, range, candidate_hash) ==
    LET stops == {i \in Slots(range) :
                    \/ i \notin DOMAIN vec
                    \/ vec[i] = candidate_hash
                    \/ vec[i] = None}
    IN  IF stops # {} THEN Min(stops)
        ELSE IF Slots(range) = {} THEN NoIndex
        ELSE range.start

\* where the `for i in range` loops stop: the first slot of the range that is
\* outside the vector (the indexing panics), holds the hash, or is empty
FirstStop(vec, range, candidate_hash) ==
    LET stops == {i \in Slots(range) :
                    \/ i \notin DOMAIN vec
                    \/ vec[i] = candidate_hash
                    \/ vec[i] = None}
    IN  IF stops = {} THEN NoIndex ELSE Min(stops)

----------------------------------------------------------------------------
(* DirectInGroup::new *)

\* mutant: a validator that is not found takes position 0
new_default_position(group_validators, our, limit) ==
    IF Len(group_validators) = 0 THEN [ok |-> FALSE, panic |-> FALSE]
    ELSE IF our >= Len(group_validators) THEN [ok |-> FALSE, panic |-> FALSE]
    ELSE LET found == index_in_group(group_validators, our)
             pos == IF found = NoIndex THEN 0 ELSE found
             n == Len(group_validators)
         IN  [ok |-> TRUE,
              validators |-> group_validators,
              our_index |-> pos,
              seconding_limit |-> limit,
              incoming |-> [i \in 0..((n - 1) * n * limit - 1) |-> None],
              accepted |-> [i \in 0..(n * limit - 1) |-> None]]

\* mutant: the incoming matrix sized (G-1) * (G-1) * L
new_square(group_validators, our, limit) ==
    IF Len(group_validators) = 0 THEN [ok |-> FALSE, panic |-> FALSE]
    ELSE IF our >= Len(group_validators) THEN [ok |-> FALSE, panic |-> FALSE]
    ELSE LET pos == index_in_group(group_validators, our)
             n == Len(group_validators)
         IN  IF pos = NoIndex THEN [ok |-> FALSE, panic |-> FALSE]
             ELSE [ok |-> TRUE,
                   validators |-> group_validators,
                   our_index |-> pos,
                   seconding_limit |-> limit,
                   incoming |-> [i \in 0..((n - 1) * (n - 1) * limit - 1) |-> None],
                   accepted |-> [i \in 0..(n * limit - 1) |-> None]]

\* returns None ([ok |-> FALSE]) or Some(tracker); `len - 1` of line 78 would
\* underflow (panic) on an empty group
new(group_validators, our, limit) ==
    IF Len(group_validators) = 0 THEN [ok |-> FALSE, panic |-> FALSE]
    ELSE IF our >= Len(group_validators) THEN [ok |-> FALSE, panic |-> FALSE]
    ELSE LET pos == index_in_group(group_validators, our)
             n == Len(group_validators)
         IN  IF pos = NoIndex THEN [ok |-> FALSE, panic |-> FALSE]
             ELSE IF n - 1 < 0 THEN [ok |-> FALSE, panic |-> TRUE]
             ELSE [ok |-> TRUE,
                   validators |-> group_validators,
                   our_index |-> pos,
                   seconding_limit |-> limit,
                   incoming |-> [i \in 0..((n - 1) * n * limit - 1) |-> None],
                   accepted |-> [i \in 0..(n * limit - 1) |-> None]]

Construct ==
    /\ pc = "new"
    /\ LET t == new(new_args.group_validators, new_args.our_index,
                    new_args.seconding_limit)
       IN  IF t.ok
           THEN /\ pc' = "ready"
                /\ validators' = t.validators
                /\ our_index' = t.our_index
                /\ seconding_limit' = t.seconding_limit
                /\ incoming' = t.incoming
                /\ accepted' = t.accepted
           ELSE /\ pc' = IF t.panic THEN "panicked" ELSE "none"
                /\ UNCHANGED tracker
    /\ UNCHANGED <<new_args, last, log, script>>

----------------------------------------------------------------------------
(* DirectInGroup::handle_incoming_seconded *)

handle_accepted_incoming(acc, originator, candidate_hash) ==
    LET i == FirstStop(acc, accepted_range(originator), candidate_hash)
    IN  IF i = NoIndex THEN [result |-> "OriginatorExcess", accepted |-> acc]
        ELSE IF i \notin DOMAIN acc THEN [result |-> "Panic", accepted |-> acc]
        ELSE IF acc[i] = candidate_hash THEN [result |-> "YesKnown", accepted |-> acc]
        ELSE [result |-> "YesUnknown",
              accepted |-> [acc EXCEPT ![i] = candidate_hash]]

\* the position the handler takes for the sender
sender_index(sender, originator) == index_in_group(validators, sender)

\* the position the handler takes for the originator: line 106 looks up `sender`
originator_index(sender, originator) == index_in_group(validators, sender)

\* mutant: the check of line 111 left out
is_self_unchecked(s_idx, o_idx) == FALSE

\* line 111
is_self(s_idx, o_idx) == s_idx = our_index \/ o_idx = our_index

\* mutant: the write of line 124 left out
handle_incoming_seconded_unrecorded(sender, originator, candidate_hash) ==
    LET s_idx == sender_index(sender, originator)
        o_idx == originator_index(sender, originator)
        same == [incoming |-> incoming, accepted |-> accepted]
    IN  IF s_idx = NoIndex THEN [result |-> "NotInGroup"] @@ same
        ELSE IF o_idx = NoIndex THEN [result |-> "NotInGroup"] @@ same
        ELSE IF is_self(s_idx, o_idx) THEN [result |-> "NotInGroup"] @@ same
        ELSE LET i == FirstStop(incoming, incoming_range(s_idx, o_idx), candidate_hash)
             IN  IF i = NoIndex THEN [result |-> "PeerExcess"] @@ same
                 ELSE IF i \notin DOMAIN incoming THEN [result |-> "Panic"] @@ same
                 ELSE IF incoming[i] = candidate_hash
                      THEN [result |-> "PeerExcess"] @@ same
                 ELSE LET a == handle_accepted_incoming(accepted, o_idx, candidate_hash)
                      IN  [result |-> a.result,
                           incoming |-> incoming,
                           accepted |-> a.accepted]

handle_incoming_seconded(sender, originator, candidate_hash) ==
    LET s_idx == sender_index(sender, originator)
        o_idx == originator_index(sender, originator)
        same == [incoming |-> incoming, accepted |-> accepted]
    IN  IF s_idx = NoIndex THEN [result |-> "NotInGroup"] @@ same
        ELSE IF o_idx = NoIndex THEN [result |-> "NotInGroup"] @@ same
        ELSE IF is_self(s_idx, o_idx) THEN [result |-> "NotInGroup"] @@ same
        ELSE LET i == FirstStop(incoming, incoming_range(s_idx, o_idx), candidate_hash)
             IN  IF i = NoIndex THEN [result |-> "PeerExcess"] @@ same
                 ELSE IF i \notin DOMAIN incoming THEN [result |-> "Panic"] @@ same
                 ELSE IF incoming[i] = candidate_hash
                      THEN [result |-> "PeerExcess"] @@ same
                 ELSE LET a == handle_accepted_incoming(accepted, o_idx, candidate_hash)
                      IN  [result |-> a.result,
                           incoming |-> [incoming EXCEPT ![i] = candidate_hash],
                           accepted |-> a.accepted]

\* the handler applied to one call; an out-of-bounds index ends the tracker
Apply(sender, originator, candidate_hash) ==
    /\ pc = "ready"
    /\ LET r == handle_incoming_seconded(sender, originator, candidate_hash)
       IN  /\ incoming' = r.incoming
           /\ accepted' = r.accepted
           /\ pc' = IF r.result = "Panic" THEN "panicked" ELSE pc
           /\ last' = [sender |-> sender, originator |-> originator,
                       candidate_hash |-> candidate_hash, result |-> r.result]
    /\ UNCHANGED <<new_args, validators, our_index, seconding_limit>>

\* the local node's own identity
OurId == validators[our_index + 1]

\* a group member other than the local node
Peer(v) == v \in Members(validators) /\ v # OurId

\* what the history keeps: every call not answered PeerExcess, but for the
\* NotInGroup answers to a pair that is not a pair of peers
Logged(call) ==
    /\ call.result # "PeerExcess"
    /\ call.result = "NotInGroup" => Peer(call.sender) /\ Peer(call.originator)

HandleIncomingSeconded ==
    \E sender \in Callers(validators), originator \in Callers(validators),
       candidate_hash \in Hashes :
        /\ Apply(sender, originator, candidate_hash)
        /\ log' = IF Logged(last') THEN log \cup {last'} ELSE log
        /\ UNCHANGED script

----------------------------------------------------------------------------
(* The scenario of the testable properties: group [V0,V1,V2,V3], own       *)
(* identity V0, L = 1, and four calls.                                     *)

ScenarioArgs ==
    [group_validators |-> GroupFrom(0, 4), our_index |-> 0, seconding_limit |-> 1]

Call(s, o, h) == [sender |-> s, originator |-> o, candidate_hash |-> h]

Scenario == <<Call(1, 2, 1), Call(1, 2, 1), Call(3, 2, 2), Call(2, 1, 3)>>

Off == <<"Off">>

ScenarioHashes == {Scenario[i].candidate_hash : i \in 1..Len(Scenario)}

ScenarioCall ==
    \E sender \in Callers(validators), originator \in Callers(validators),
       candidate_hash \in ScenarioHashes :
        /\ Apply(sender, originator, candidate_hash)
        /\ script' = IF /\ script # Off
                        /\ Len(script) < Len(Scenario)
                        /\ Scenario[Len(script) + 1]
                             = Call(sender, originator, candidate_hash)
                     THEN Append(script, last'.result)
                     ELSE Off
        /\ UNCHANGED log

----------------------------------------------------------------------------
(* Specifications. *)

NoCall == [sender |-> NoIndex, originator |-> NoIndex, candidate_hash |-> None,
           result |-> "none"]

NewArgs ==
    {a \in [group_validators : Groups, our_index : ValidatorIds,
            seconding_limit : 1..MaxLimit] :
        (Len(a.group_validators) - 1) * Len(a.group_validators) * a.seconding_limit
            <= MaxIncoming}

InitWith(args) ==
    /\ new_args \in args
    /\ pc = "new"
    /\ validators = <<>>
    /\ our_index = 0
    /\ seconding_limit = 0
    /\ incoming = <<>>
    /\ accepted = <<>>
    /\ last = NoCall
    /\ log = {}
    /\ script = <<>>

Init == InitWith(NewArgs)

Next == Construct \/ HandleIncomingSeconded

Spec == Init /\ [][Next]_vars

\* the calls of a tracker with no history kept
WideCall ==
    \E sender \in Callers(validators), originator \in Callers(validators),
       candidate_hash \in Hashes :
        /\ Apply(sender, originator, candidate_hash)
        /\ UNCHANGED <<log, script>>

WideArgs ==
    {a \in [group_validators : WideGroups, our_index : WideIds,
            seconding_limit : 0..WideLimit] :
        (Len(a.group_validators) - 1) * Len(a.group_validators) * a.seconding_limit
            <= WideIncoming}

InitWide == InitWith(WideArgs)

NextWide == Construct \/ WideCall

SpecWide == InitWide /\ [][NextWide]_vars

\* one group of DeepGroup with the local node first and a limit of DeepLimit;
\* its two last members relay up to DeepHashes candidates in the name of the
\* second member, DeepWrites slots at most being filled
DeepArgs ==
    {[group_validators |-> GroupFrom(0, DeepGroup), our_index |-> 0,
      seconding_limit |-> DeepLimit]}

DeepSenders == {validators[DeepGroup - 1], validators[DeepGroup]}

DeepCall ==
    /\ pc = "ready"
    /\ \E sender \in DeepSenders, candidate_hash \in 1..DeepHashes :
        /\ Cardinality({i \in DOMAIN incoming : incoming[i] # None}) < DeepWrites
        /\ Apply(sender, validators[2], candidate_hash)
        /\ UNCHANGED <<log, script>>

InitDeep == InitWith(DeepArgs)

NextDeep == Construct \/ DeepCall

SpecDeep == InitDeep /\ [][NextDeep]_vars

InitScenario == InitWith({ScenarioArgs})

NextScenario == Construct \/ ScenarioCall

SpecScenario == InitScenario /\ [][NextScenario]_vars

----------------------------------------------------------------------------
(* What the history says. *)

Accepts == {"YesUnknown", "YesKnown"}
Records == {"YesUnknown", "YesKnown", "OriginatorExcess"}

\* the hashes some call (any sender, originator o) was answered YesUnknown for
UnknownFor(o) ==
    {e.candidate_hash : e \in {x \in log : x.originator = o /\ x.result = "YesUnknown"}}

\* the hashes accepted for originator o, from any sender
AcceptedFor(o) ==
    {e.candidate_hash : e \in {x \in log : x.originator = o /\ x.result \in Accepts}}

\* the calls of the pair (s, o) the history keeps
PairLog(s, o) == {x \in log : x.sender = s /\ x.originator = o}

\* the hashes of the pair (s, o) not answered PeerExcess
LoggedFor(s, o) == {e.candidate_hash : e \in PairLog(s, o)}

\* the hashes recorded for the pair (s, o): answered Accept or OriginatorExcess
RecordedFor(s, o) ==
    {e.candidate_hash : e \in {x \in PairLog(s, o) : x.result \in Records}}

\* the slots the handler scans in `incoming` for a call of (s, o)
ScannedRow(s, o) ==
    Slots(incoming_range(sender_index(s, o), originator_index(s, o)))
        \cap DOMAIN incoming

\* the row of the pair (s, o) has a free slot and does not hold h: by the
\* history of the pair and in the slots the handler scans
RowOpenFor(s, o, h) ==
    /\ Cardinality(RecordedFor(s, o)) < seconding_limit
    /\ h \notin RecordedFor(s, o)
    /\ \E i \in ScannedRow(s, o) : incoming[i] = None
    /\ \A i \in ScannedRow(s, o) : incoming[i] # h

\* a step of a constructed tracker is one call, kept in last'
Called == pc = "ready"

----------------------------------------------------------------------------
(* The claims. *)

\* C1: for every originator of the group (other than the local node), the
\* distinct hashes some call with that originator was answered YesUnknown for
\* are at most the seconding limit, whatever senders relayed them.
C1_OriginatorBound ==
    pc = "ready" =>
        \A o \in Members(validators) :
            Peer(o) => Cardinality(UnknownFor(o)) <= seconding_limit

\* C2: once L distinct hashes are accepted for originator o, a call (s, o, h)
\* by a peer s whose row for o has a free slot, with h not among them, is
\* answered OriginatorExcess.
C2_OriginatorExcess ==
    [][(/\ Called
        /\ Peer(last'.sender)
        /\ Peer(last'.originator)
        /\ Cardinality(AcceptedFor(last'.originator)) >= seconding_limit
        /\ last'.candidate_hash \notin AcceptedFor(last'.originator)
        /\ RowOpenFor(last'.sender, last'.originator, last'.candidate_hash))
       => last'.result = "OriginatorExcess"]_vars

\* C3: on the tracker of group [V0,V1,V2,V3], own identity V0 and L = 1, the
\* calls (V1,V2,C1), (V1,V2,C1), (V3,V2,C2), (V2,V1,C3) are answered
\* YesUnknown, PeerExcess, OriginatorExcess, YesUnknown, in this order.
C3_Scenario ==
    script # Off =>
        script = SubSeq(<<"YesUnknown", "PeerExcess", "OriginatorExcess", "YesUnknown">>,
                        1, Len(script))

\* C4: the call of a peer whose originator is the local node or is outside
\* the group is answered NotInGroup.
C4_OriginatorNotInGroup ==
    (/\ pc = "ready"
     /\ last # NoCall
     /\ Peer(last.sender)
     /\ ~Peer(last.originator))
    => last.result = "NotInGroup"

\* C5: a call whose sender is the local node or is outside the group is
\* answered NotInGroup, whatever its originator and hash.
C5_SenderNotInGroup ==
    (/\ pc = "ready"
     /\ last # NoCall
     /\ ~Peer(last.sender))
    => last.result = "NotInGroup"

C5_Witness ==
    /\ pc = "ready"
    /\ log # {}
    /\ last.sender = OurId
    /\ Peer(last.originator)
    /\ last.result = "NotInGroup"

\* C6: no call (with a peer as originator) is answered YesUnknown when an
\* earlier call with the same originator and hash, from any sender, was
\* answered YesUnknown.
C6_UnknownOnce ==
    [][(Called /\ Peer(last'.originator) /\ last'.result = "YesUnknown")
       => last'.candidate_hash \notin UnknownFor(last'.originator)]_vars

\* C7: when h is accepted for originator o through a sender s1, the call
\* (s2, o, h) of another peer s2, whose row for o has a free slot and does
\* not hold h, is answered YesKnown and leaves `accepted` as it was.
C7_KnownFromOtherSender ==
    [][(/\ Called
        /\ Peer(last'.sender)
        /\ Peer(last'.originator)
        /\ \E e \in log : /\ e.originator = last'.originator
                          /\ e.candidate_hash = last'.candidate_hash
                          /\ e.result \in Accepts
                          /\ e.sender # last'.sender
        /\ RowOpenFor(last'.sender, last'.originator, last'.candidate_hash))
       => (last'.result = "YesKnown" /\ accepted' = accepted)]_vars

\* C8: for a pair of peers (s, o), a hash the pair did not submit before, when
\* fewer than L distinct hashes were submitted with the pair, is not answered
\* PeerExcess, whatever the calls of other pairs.  (Every earlier hash of the
\* pair not answered PeerExcess is in the history.)
C8_PairQuotaIndependent ==
    [][(/\ Called
        /\ Peer(last'.sender)
        /\ Peer(last'.originator)
        /\ last'.candidate_hash \notin LoggedFor(last'.sender, last'.originator)
        /\ Cardinality(LoggedFor(last'.sender, last'.originator)) < seconding_limit)
       => last'.result # "PeerExcess"]_vars

\* C9: once L distinct hashes are recorded for a pair (s, o), a call of the
\* pair with another hash is answered PeerExcess; and the calls of a pair
\* answered Accept are at most L: none is accepted twice, and the accepted
\* ones are at most L.
C9_PairCap ==
    [][Called =>
        LET s == last'.sender
            o == last'.originator
            h == last'.candidate_hash
        IN  /\ (Cardinality(RecordedFor(s, o)) >= seconding_limit
                  /\ h \notin RecordedFor(s, o))
                => last'.result = "PeerExcess"
            /\ last'.result \in Accepts
                => \A e \in PairLog(s, o) :
                      ~(e.candidate_hash = h /\ e.result \in Accepts)
            /\ Cardinality({e \in log' : /\ e.sender = s
                                         /\ e.originator = o
                                         /\ e.result \in Accepts})
                 <= seconding_limit]_vars

C9_Witness ==
    /\ pc = "ready"
    /\ Peer(last.sender)
    /\ Peer(last.originator)
    /\ seconding_limit = MaxLimit
    /\ Cardinality(RecordedFor(last.sender, last.originator)) = seconding_limit
    /\ last.candidate_hash \notin RecordedFor(last.sender, last.originator)
    /\ last.result = "PeerExcess"

\* C10: once a call (s, o, h) recorded h (it was answered Accept or
\* OriginatorExcess), every later call (s, o, h) is answered PeerExcess.
C10_NoReaccept ==
    [][(/\ Called
        /\ last'.candidate_hash \in RecordedFor(last'.sender, last'.originator))
       => last'.result = "PeerExcess"]_vars

C10_Witness ==
    /\ pc = "ready"
    /\ Peer(last.sender)
    /\ Peer(last.originator)
    /\ last.candidate_hash \in RecordedFor(last.sender, last.originator)
    /\ Cardinality(RecordedFor(last.sender, last.originator)) < seconding_limit
    /\ \E i \in ScannedRow(last.sender, last.originator) : incoming[i] = None
    /\ last.result = "PeerExcess"

Rejects == {"NotInGroup", "PeerExcess", "OriginatorExcess"}

\* C11: a call answered with a Reject (NotInGroup, PeerExcess or
\* OriginatorExcess) leaves the incoming and the accepted matrix as they were.
C11_RejectAltersNothing ==
    [][(Called /\ last'.result \in Rejects)
       => (incoming' = incoming /\ accepted' = accepted)]_vars

C11_Witness ==
    /\ pc = "ready"
    /\ Peer(last.sender)
    /\ last.result = "PeerExcess"
    /\ \E i \in DOMAIN incoming : incoming[i] # None /\ incoming[i] # last.candidate_hash
    /\ \E i \in DOMAIN incoming : incoming[i] = None

\* C13: new returns a tracker whenever the group is not empty and our_index
\* is one of its elements, whatever its value and whatever the limit, with
\* our position that of the element in the list.
C13_ConstructsWhenMember ==
    (/\ pc # "new"
     /\ Len(new_args.group_validators) > 0
     /\ new_args.our_index \in Members(new_args.group_validators))
    => (/\ pc = "ready"
        /\ validators = new_args.group_validators
        /\ validators[our_index + 1] = new_args.our_index)

\* C14: new returns None, and does not panic, whenever the group is empty or
\* our_index is not one of its elements.
C14_NoneWhenNotMember ==
    (/\ pc # "new"
     /\ \/ Len(new_args.group_validators) = 0
        \/ new_args.our_index \notin Members(new_args.group_validators))
    => pc = "none"

C14_Witness ==
    /\ pc = "none"
    /\ Len(new_args.group_validators) > 1
    /\ new_args.our_index < Len(new_args.group_validators)
    /\ new_args.our_index \notin Members(new_args.group_validators)
    /\ new_args.seconding_limit > 0

\* the positions the handler takes for a call of (s, o), when it gets past
\* its NotInGroup checks
Passes(s, o) ==
    /\ sender_index(s, o) # NoIndex
    /\ originator_index(s, o) # NoIndex
    /\ ~is_self(sender_index(s, o), originator_index(s, o))

\* C15: no call panics: on every constructed tracker (any group, any position
\* of self, any limit from 0) and for every sender and originator, the slots
\* the handler scans lie inside `incoming` and `accepted`, and G-1 does not
\* underflow.
C15_NoPanic ==
    /\ pc # "panicked"
    /\ pc = "ready" =>
        /\ Len(validators) - 1 >= 0
        /\ \A s \in Callers(validators), o \in Callers(validators) :
              Passes(s, o) =>
                /\ Slots(incoming_range(sender_index(s, o), originator_index(s, o)))
                     \subseteq DOMAIN incoming
                /\ Slots(accepted_range(originator_index(s, o)))
                     \subseteq DOMAIN accepted

\* the last validator of the group filled the last slot of its row
C15_Witness ==
    /\ pc = "ready"
    /\ Len(validators) >= 3
    /\ seconding_limit >= 2
    /\ last.sender = validators[Len(validators)]
    /\ last.result = "YesUnknown"
    /\ \A i \in ScannedRow(last.sender, last.originator) : incoming[i] # None

Occupied(vec) == {i \in DOMAIN vec : vec[i] # None}

\* C16: no call clears or overwrites an occupied slot of `incoming` or of
\* `accepted`: a slot that holds a hash holds the same hash after every call.
C16_NoEviction ==
    [][Called =>
        /\ \A i \in Occupied(incoming) :
              i \in DOMAIN incoming' /\ incoming'[i] = incoming[i]
        /\ \A i \in Occupied(accepted) :
              i \in DOMAIN accepted' /\ accepted'[i] = accepted[i]]_vars

\* a full row has refused another hash
C16_Witness ==
    /\ pc = "ready"
    /\ seconding_limit >= 2
    /\ Peer(last.sender)
    /\ last.result = "PeerExcess"
    /\ \A i \in ScannedRow(last.sender, last.originator) :
          incoming[i] # None /\ incoming[i] # last.candidate_hash

\* C17: a fresh tracker has (G-1)*G*L incoming slots and G*L accepted slots,
\* all empty; after any calls both lengths, the group, our position and the
\* limit are those of the construction.
C17_FixedFootprint ==
    pc = "ready" =>
        LET G == Len(new_args.group_validators)
            L == new_args.seconding_limit
        IN  /\ DOMAIN incoming = 0..((G - 1) * G * L - 1)
            /\ DOMAIN accepted = 0..(G * L - 1)
            /\ validators = new_args.group_validators
            /\ validators[our_index + 1] = new_args.our_index
            /\ seconding_limit = L
            /\ last = NoCall => (Occupied(incoming) = {} /\ Occupied(accepted) = {})

C17_Witness ==
    /\ pc = "ready"
    /\ Len(validators) >= 3
    /\ Cardinality(Occupied(incoming)) >= 3
    /\ last.result = "PeerExcess"

\* the positions of the group, and those of the senders (all but self)
Positions == 0..(Len(validators) - 1)
SenderPositions == Positions \ {our_index}

\* no two occupied slots of the range hold the same hash
RowDistinct(vec, range) ==
    \A i \in Slots(range) \cap DOMAIN vec, j \in Slots(range) \cap DOMAIN vec :
        (i # j /\ vec[i] # None /\ vec[j] # None) => vec[i] # vec[j]

\* C18: in every reachable state the occupied slots of incoming_range(sender,
\* originator) hold pairwise distinct hashes, for every sender position other
\* than self and every originator position, and so do the occupied slots of
\* accepted_range(originator) for every originator position.
C18_RowsDistinct ==
    pc = "ready" =>
        /\ \A s \in SenderPositions, o \in Positions :
              RowDistinct(incoming, incoming_range(s, o))
        /\ \A o \in Positions : RowDistinct(accepted, accepted_range(o))

\* C19: for every group, position of self and limit L >= 1, incoming_range
\* maps any two distinct pairs (sender position other than self, originator
\* position) to disjoint ranges of slots.
C19_RowsDisjoint ==
    (pc = "ready" /\ seconding_limit >= 1) =>
        \A s1 \in SenderPositions, s2 \in SenderPositions,
           o1 \in Positions, o2 \in Positions :
            <<s1, o1>> # <<s2, o2>> =>
                Slots(incoming_range(s1, o1)) \cap Slots(incoming_range(s2, o2)) = {}

\* C20: for every group of G >= 2 and every position p of self,
\* adjust_for_skipped_self maps the positions other than p one-to-one and in
\* order onto 0..G-2: those below p to themselves, those above p one down.
C20_Compaction ==
    (pc = "ready" /\ Len(validators) >= 2) =>
        /\ {adjust_for_skipped_self(i) : i \in SenderPositions}
             = 0..(Len(validators) - 2)
        /\ \A i \in SenderPositions, j \in SenderPositions :
              i < j => adjust_for_skipped_self(i) < adjust_for_skipped_self(j)
        /\ \A i \in SenderPositions :
              adjust_for_skipped_self(i) = IF i < our_index THEN i ELSE i - 1

\* self in the middle of the group, and a sender above it has been recorded
C20_Witness ==
    /\ pc = "ready"
    /\ our_index > 0
    /\ our_index < Len(validators) - 1
    /\ Peer(last.sender)
    /\ sender_index(last.sender, last.originator) > our_index
    /\ last.result = "YesUnknown"

----------------------------------------------------------------------------
(* The handler as a function of the tracker it is called on, and the trackers
   a constructed tracker can become. *)

incoming_range_of(t, sender, originator) ==
    LET s == IF sender > t.our_index THEN sender - 1 ELSE sender
        base == (s * (Len(t.validators) - 1)) + originator * t.seconding_limit
    IN  [start |-> base, end |-> base + t.seconding_limit]

accepted_range_of(t, originator) ==
    LET base == originator * t.seconding_limit
    IN  [start |-> base, end |-> base + t.seconding_limit]

handle_accepted_incoming_of(t, originator, candidate_hash) ==
    LET i == FirstStop(t.accepted, accepted_range_of(t, originator), candidate_hash)
    IN  IF i = NoIndex THEN [result |-> "OriginatorExcess", accepted |-> t.accepted]
        ELSE IF i \notin DOMAIN t.accepted
             THEN [result |-> "Panic", accepted |-> t.accepted]
        ELSE IF t.accepted[i] = candidate_hash
             THEN [result |-> "YesKnown", accepted |-> t.accepted]
        ELSE [result |-> "YesUnknown",
              accepted |-> [t.accepted EXCEPT ![i] = candidate_hash]]

\* the verdict and the tracker after the call
handle_incoming_seconded_of(t, sender, originator, candidate_hash) ==
    LET s_idx == index_in_group(t.validators, sender)
        o_idx == index_in_group(t.validators, sender)
    IN  IF s_idx = NoIndex THEN [result |-> "NotInGroup", tracker |-> t]
        ELSE IF o_idx = NoIndex THEN [result |-> "NotInGroup", tracker |-> t]
        ELSE IF s_idx = t.our_index \/ o_idx = t.our_index
             THEN [result |-> "NotInGroup", tracker |-> t]
        ELSE LET i == FirstStop(t.incoming, incoming_range_of(t, s_idx, o_idx),
                                candidate_hash)
             IN  IF i = NoIndex THEN [result |-> "PeerExcess", tracker |-> t]
                 ELSE IF i \notin DOMAIN t.incoming
                      THEN [result |-> "Panic", tracker |-> t]
                 ELSE IF t.incoming[i] = candidate_hash
                      THEN [result |-> "PeerExcess", tracker |-> t]
                 ELSE LET a == handle_accepted_incoming_of(t, o_idx, candidate_hash)
                      IN  [result |-> a.result,
                           tracker |-> [t EXCEPT !.incoming[i] = candidate_hash,
                                                 !.accepted = a.accepted]]

\* the calls a tracker is given: any two identities and any hash
CallsOf(t) ==
    [sender : Callers(t.validators), originator : Callers(t.validators),
     candidate_hash : 1..(t.seconding_limit + 1)]

AfterCall(t, c) ==
    handle_incoming_seconded_of(t, c.sender, c.originator, c.candidate_hash)

\* the trackers reached from those of S by any number of calls
RECURSIVE TrackersFrom(_)
TrackersFrom(S) ==
    LET more == S \cup UNION {{AfterCall(t, c).tracker : c \in CallsOf(t)} : t \in S}
    IN  IF more = S THEN S ELSE TrackersFrom(more)

\* what new(...) returns, as a tracker
Constructed(a) ==
    LET t == new(a.group_validators, a.our_index, a.seconding_limit)
    IN  [validators |-> t.validators, our_index |-> t.our_index,
         seconding_limit |-> t.seconding_limit,
         incoming |-> t.incoming, accepted |-> t.accepted]

\* the verdicts some call sequence on the tracker of new(a) ends with
VerdictsOf(a) ==
    {AfterCall(t, c).result :
        t \in TrackersFrom({Constructed(a)}), c \in CallsOf(Constructed(a))}

AdmissionVerdicts ==
    {"YesUnknown", "YesKnown", "NotInGroup", "PeerExcess", "OriginatorExcess"}

\* the arguments that construct a tracker of G >= 3 and L >= 1
LargeArgs ==
    {a \in WideArgs :
        /\ Len(a.group_validators) >= 3
        /\ a.seconding_limit >= 1
        /\ new(a.group_validators, a.our_index, a.seconding_limit).ok}

\* C21: for some tracker of G >= 3 and L >= 1, each of Accept::Unknown,
\* Accept::Known, Reject::NotInGroup, Reject::PeerExcess and
\* Reject::OriginatorExcess is returned by handle_incoming_seconded at the end
\* of some call sequence.
C21_EveryVerdictReachable ==
    pc = "new" => \E a \in LargeArgs : AdmissionVerdicts \subseteq VerdictsOf(a)

\* the tracker the state holds
tracker_now ==
    [validators |-> validators, our_index |-> our_index,
     seconding_limit |-> seconding_limit,
     incoming |-> incoming, accepted |-> accepted]

\* the handler of a tracker and the handler on the state agree call by call
HandlerAgrees ==
    pc = "ready" =>
        \A c \in CallsOf(tracker_now) :
            LET r == handle_incoming_seconded(c.sender, c.originator, c.candidate_hash)
                q == AfterCall(tracker_now, c)
            IN  /\ q.result = r.result
                /\ q.tracker.incoming = r.incoming
                /\ q.tracker.accepted = r.accepted

\* the hashes the range holds
HashesIn(vec, range) ==
    {vec[i] : i \in {j \in Slots(range) \cap DOMAIN vec : vec[j] # None}}

\* C22: in every reachable state every hash of the accepted row of an
\* originator position is held by the incoming row of some sender position
\* for that originator position, and the accepted matrix has no more occupied
\* slots than the incoming matrix.
C22_AcceptedImpliesRelayed ==
    pc = "ready" =>
        /\ \A o \in Positions :
              \A h \in HashesIn(accepted, accepted_range(o)) :
                  \E s \in SenderPositions :
                      h \in HashesIn(incoming, incoming_range(s, o))
        /\ Cardinality(Occupied(accepted)) <= Cardinality(Occupied(incoming))

\* two originator positions have accepted hashes, and a call has been refused
\* since
C22_Witness ==
    /\ pc = "ready"
    /\ Cardinality({o \in Positions :
                      HashesIn(accepted, accepted_range(o)) # {}}) >= 2
    /\ Cardinality(Occupied(accepted)) >= 3
    /\ last.result = "PeerExcess"

====
